---- MODULE Spec2Model ----
(***************************************************************************)
(* Conversation session manager of CF-AICord (src/main.py).                *)
(*                                                                         *)
(* State: the `conversations` collection (a list of documents), the chat   *)
(* threads created by the model-selection callback, one record per bind    *)
(* interaction and one record per handler invocation (on_message or        *)
(* regenerate_response), each with the position of its coroutine.  Every   *)
(* `await` of the source is a point where another coroutine may run, so    *)
(* every action below is the code between two awaits.                      *)
(*                                                                         *)
(* Text is a sequence of one-character strings; the bot's mention token    *)
(* "<@id>" is the two-character sequence Mention.                          *)
(***************************************************************************)
EXTENDS Integers, Sequences, FiniteSets, TLC

\* ------------------------------------------------------------------ bounds
\* number of model-selection interactions (each creates one thread)
MaxThreads == 1

Binds == 1..MaxThreads

\* the handler invocations (on_message / regenerate_response events), named
\* in the order the events arrive: two coroutines, which may overlap
Invs == {1, 2}

\* ------------------------------------------------------------- input sets
\* channel 0 is an ordinary channel that no bind created; bind b creates
\* the thread whose id is b (thread ids are unique snowflakes)
Channels == 0..MaxThreads

\* two of the four options of SelectModelSelect
Models == {"@cf/meta/llama-2-7b-chat-fp16", "@cf/mistral/mistral-7b-instruct-v0.1"}

\* self.user.mention
Mention == <<"<", ">">>

\* message.content of inbound / target messages: "<@id>h" and "g"
Contents == { <<"<", ">", "h">>, <<"g">> }

\* inbound message events (author.bot, mentioned_in, content): the ones
\* on_message takes up, and one for each reason it does not
MessageEvents ==
    { [author_bot |-> FALSE, mentioned |-> TRUE, content |-> c] : c \in Contents }
    \cup { [author_bot |-> TRUE,  mentioned |-> TRUE,  content |-> <<"g">>],
           [author_bot |-> FALSE, mentioned |-> FALSE, content |-> <<"g">>],
           [author_bot |-> FALSE, mentioned |-> TRUE,  content |-> <<>>] }

\* target messages of the "Regenerate response" command: a user's message
\* to the bot, a bot's reply, a message without text (`mentioned` is not
\* read on this path)
RegenTargets ==
    { [author_bot |-> FALSE, mentioned |-> FALSE, content |-> <<"<", ">", "h">>],
      [author_bot |-> TRUE,  mentioned |-> FALSE, content |-> <<"s">>],
      [author_bot |-> FALSE, mentioned |-> FALSE, content |-> <<>>] }

\* generated texts
Replies == { <<"s">>, <<"y">> }

SystemPrompt == <<"P">>

\* what the POST of fetch_response can produce: the transport fails, or a
\* JSON body arrives; `result` says whether body["result"]["response"]
\* exists, `messages` whether the body has a top-level "messages" list
Responses ==
    { [ok |-> FALSE, result |-> FALSE, messages |-> FALSE, response |-> <<>>],
      [ok |-> TRUE,  result |-> FALSE, messages |-> TRUE,  response |-> <<>>],
      [ok |-> TRUE,  result |-> TRUE,  messages |-> FALSE, response |-> <<"s">>] }
    \cup { [ok |-> TRUE, result |-> TRUE, messages |-> TRUE, response |-> r] :
             r \in Replies }

NoResponse == [ok |-> FALSE, result |-> FALSE, messages |-> FALSE, response |-> <<>>]

\* ---------------------------------------------------------------- helpers
Msg(role, content) == [role |-> role, content |-> content]

SystemMessage == Msg("system", SystemPrompt)

\* the document without the persona entry
NewDocumentNoSystem(tid, model) ==
    [thread_id |-> tid, messages |-> <<>>, model |-> model]

\* the document with a fixed model in place of the selected one
NewDocumentDefaultModel(tid, model) ==
    [thread_id |-> tid, messages |-> <<SystemMessage>>,
     model |-> "@cf/meta/llama-2-7b-chat-fp16"]

NewDocument(tid, model) ==
    [thread_id |-> tid, messages |-> <<SystemMessage>>, model |-> model]

\* the value standing for Python's None where a document is expected
NoDoc == [thread_id |-> -1, messages |-> <<>>, model |-> "None"]

IsPrefixAt(tok, s, i) ==
    /\ i + Len(tok) - 1 <= Len(s)
    /\ \A k \in 1..Len(tok) : s[i + k - 1] = tok[k]

\* str.replace(tok, ""): one left-to-right pass over non-overlapping matches
RECURSIVE ReplaceFrom(_, _, _)
ReplaceFrom(s, tok, i) ==
    IF i > Len(s) THEN <<>>
    ELSE IF IsPrefixAt(tok, s, i) THEN ReplaceFrom(s, tok, i + Len(tok))
    ELSE <<s[i]>> \o ReplaceFrom(s, tok, i + 1)

\* the text as it came
ReplaceNothing(s, tok) == s

Replace(s, tok) == ReplaceFrom(s, tok, 1)

\* collection.find_one({"thread_id": tid}): the first matching document
Matching(coll, tid) == { i \in 1..Len(coll) : coll[i].thread_id = tid }

FirstMatch(coll, tid) ==
    CHOOSE i \in Matching(coll, tid) : \A j \in Matching(coll, tid) : i <= j

FindOne(coll, tid) ==
    IF Matching(coll, tid) = {} THEN NoDoc ELSE coll[FirstMatch(coll, tid)]

\* collection.insert_one(doc)
InsertOne(coll, doc) == Append(coll, doc)

\* $addToSet in place of $push: nothing is added when m is already stored
PushMessageAddToSet(coll, tid, m) ==
    IF Matching(coll, tid) = {} THEN coll
    ELSE IF \E k \in 1..Len(coll[FirstMatch(coll, tid)].messages) :
               coll[FirstMatch(coll, tid)].messages[k] = m
         THEN coll
         ELSE [coll EXCEPT ![FirstMatch(coll, tid)].messages = Append(@, m)]

\* insert_one in place of update_one: the message becomes a document of its own
PushMessageAsInsert(coll, tid, m) ==
    Append(coll, [thread_id |-> tid, messages |-> <<m>>, model |-> "None"])

\* $set in place of $push: the message replaces the stored history
PushMessageSet(coll, tid, m) ==
    IF Matching(coll, tid) = {} THEN coll
    ELSE [coll EXCEPT ![FirstMatch(coll, tid)].messages = <<m>>]

\* collection.update_one({"thread_id": tid}, {"$push": {"messages": m}}):
\* one atomic append to the first matching document, nothing when none matches
PushMessage(coll, tid, m) ==
    IF Matching(coll, tid) = {} THEN coll
    ELSE [coll EXCEPT ![FirstMatch(coll, tid)].messages = Append(@, m)]

\* ------------------------------------------------------------------ state
VARIABLES
    session_ready,   \* Bot.session is set (setup_hook has run)
    conversations,   \* the collection: a sequence of documents
    threads,         \* ids of the threads created by create_thread
    notified,        \* threads whose "You are now chatting" notice is shown
    bind,            \* bind[b]: one SelectModelSelect.callback interaction
    inv              \* inv[i]: one on_message / regenerate_response invocation

vars == <<session_ready, conversations, threads, notified, bind, inv>>

IdleBind == [pc |-> "idle", model |-> "None", outcome |-> "none"]

IdleInv ==
    [ kind |-> "none", channel |-> 0, author_bot |-> FALSE, mentioned |-> FALSE,
      content |-> <<>>,
      pc |-> "idle",
      doc_found |-> FALSE,       \* the handler's find_one returned a document
      model |-> "None",          \* data["model"] read by the handler
      message |-> <<>>,          \* fetch_response's `message` after line 116
      data |-> <<>>,             \* fetch_response's data["messages"], until
                                 \* line 131 rebinds `data`
      sent |-> <<>>,             \* the "messages" of the request in flight
      resp |-> NoResponse,       \* what the POST produced
      ai_message |-> <<>>,
      outcome |-> "none",
      shown |-> <<>>,            \* text of the reply / of the edited message
      \* history, not read by the code
      h0 |-> <<>>,               \* stored history when the event arrived (solo)
      solo |-> FALSE,            \* no earlier invocation on the channel in flight
      user_pushed |-> FALSE, called |-> FALSE, responded |-> FALSE,
      asst_pushed |-> FALSE ]

Init ==
    /\ session_ready = FALSE
    /\ conversations = <<>>
    /\ threads = {}
    /\ notified = {}
    /\ bind = [b \in Binds |-> IdleBind]
    /\ inv = [i \in Invs |-> IdleInv]

\* ------------------------------------------------------------- Bot startup
\* Bot.setup_hook: runs once, before any event is dispatched
SetupHook ==
    /\ ~session_ready
    /\ session_ready' = TRUE
    /\ UNCHANGED <<conversations, threads, notified, bind, inv>>

\* --------------------------------------------- SelectModelSelect.callback
\* lines 50-57: defer, read the selected value, give up without a message
Select(b, model, has_message) ==
    /\ session_ready
    /\ bind[b].pc = "idle"
    /\ \A c \in Binds : c < b => bind[c].pc # "idle"
    /\ bind' = [bind EXCEPT ![b] =
                  IF has_message
                  THEN [@ EXCEPT !.pc = "create_thread", !.model = model]
                  ELSE [@ EXCEPT !.pc = "done", !.outcome = "SomethingWentWrong"]]
    /\ UNCHANGED <<session_ready, conversations, threads, notified, inv>>

\* line 58: interaction.message.create_thread
CreateThread(b) ==
    /\ bind[b].pc = "create_thread"
    /\ threads' = threads \cup {b}
    /\ bind' = [bind EXCEPT ![b].pc = "notify"]
    /\ UNCHANGED <<session_ready, conversations, notified, inv>>

\* lines 59-62: edit_original_response("... You are now chatting with ...")
Notify(b) ==
    /\ bind[b].pc = "notify"
    /\ notified' = notified \cup {b}
    /\ bind' = [bind EXCEPT ![b].pc = "insert"]
    /\ UNCHANGED <<session_ready, conversations, threads, inv>>

\* lines 63-75: thread.add_user (no state of this model), then
\* conversations.insert_one
InsertSession(b) ==
    /\ bind[b].pc = "insert"
    /\ conversations' = InsertOne(conversations, NewDocument(b, bind[b].model))
    /\ bind' = [bind EXCEPT ![b].pc = "done", ![b].outcome = "Bound"]
    /\ UNCHANGED <<session_ready, threads, notified, inv>>

\* ------------------------------------------------------- handler helpers
\* the test without `not bot.user.mentioned_in(message)`
EligibleIgnoresMention(author_bot, mentioned, content) ==
    ~(author_bot \/ content = <<>>)

\* on_message line 180, negated: the event is taken up as a chat message
Eligible(author_bot, mentioned, content) ==
    ~(author_bot \/ ~mentioned \/ content = <<>>)

\* the two refusals tested in the other order
RegenCheckTargetFirst(doc, author_bot, content) ==
    IF author_bot \/ content = <<>> THEN "InvalidTarget"
    ELSE IF doc = NoDoc THEN "NoSessionForThread"
    ELSE "ok"

\* the target test without `not message.content`
RegenCheckAuthorOnly(doc, author_bot, content) ==
    IF doc = NoDoc THEN "NoSessionForThread"
    ELSE IF author_bot THEN "InvalidTarget"
    ELSE "ok"

\* regenerate_response lines 159-168
RegenCheck(doc, author_bot, content) ==
    IF doc = NoDoc THEN "NoSessionForThread"
    ELSE IF author_bot \/ content = <<>> THEN "InvalidTarget"
    ELSE "ok"

\* the request sent before the user message is stored
FetchStepsPostFirst ==
    <<"find", "post", "response", "push_user", "push_asst", "return">>

\* the assistant message stored before the user message
FetchStepsAsstFirst ==
    <<"find", "post", "response", "push_asst", "push_user", "return">>

\* the generated text returned before the assistant message is stored
FetchStepsReturnFirst ==
    <<"find", "push_user", "post", "response", "return", "push_asst">>

\* the awaits of fetch_response in program order: find_one (117),
\* update_one (123), session.post (127), response.json (131),
\* update_one (134), and the return to the handler (138)
FetchSteps == <<"find", "push_user", "post", "response", "push_asst", "return">>

NextStep(pc) ==
    LET k == CHOOSE n \in 1..Len(FetchSteps) : FetchSteps[n] = pc
    IN  IF k < Len(FetchSteps) THEN FetchSteps[k + 1] ELSE "done"

\* a body without a result taken as an empty answer
ResponseResultLenient(r) ==
    IF ~r.ok THEN "raise"
    ELSE IF ~r.messages THEN "raise"
    ELSE "ok"

\* lines 127-133 after the body arrived: "raise" when the POST fails, when
\* data["result"]["response"] does not exist (132) or when the body has no
\* "messages" list to append to (133: `data` is the response body by then)
ResponseResult(r) ==
    IF ~r.ok THEN "raise"
    ELSE IF ~r.result THEN "raise"
    ELSE IF ~r.messages THEN "raise"
    ELSE "ok"

\* documents of a channel
History(coll, ch) == FindOne(coll, ch).messages

InFlight(i) == inv[i].pc \notin {"idle", "done"}

\* an event can only come from a channel that exists
ChannelExists(ch) == ch = 0 \/ ch \in threads

Arrive(i, kind, ch, e) ==
    LET solo == \A j \in Invs \ {i} : inv[j].channel = ch => ~InFlight(j)
    IN  [IdleInv EXCEPT
            !.kind = kind, !.channel = ch, !.author_bot = e.author_bot,
            !.mentioned = e.mentioned, !.content = e.content,
            !.solo = solo,
            !.h0 = IF solo THEN History(conversations, ch) ELSE <<>>]

\* ------------------------------------------------------------- on_message
\* lines 179-182: the eligibility test; an event that fails it goes to
\* process_commands
OnMessage(i, ch, e) ==
    /\ session_ready
    /\ inv[i].pc = "idle"
    /\ \A j \in Invs : j < i => inv[j].pc # "idle"
    /\ ChannelExists(ch)
    /\ LET a == Arrive(i, "message", ch, e)
       IN  inv' = [inv EXCEPT ![i] =
                IF Eligible(e.author_bot, e.mentioned, e.content)
                THEN [a EXCEPT !.pc = "lookup"]
                ELSE [a EXCEPT !.pc = "done", !.outcome = "Delegated"]]
    /\ UNCHANGED <<session_ready, conversations, threads, notified, bind>>

\* lines 184-188: find_one; without a session the event goes to
\* process_commands
MessageLookup(i) ==
    /\ inv[i].kind = "message"
    /\ inv[i].pc = "lookup"
    /\ LET doc == FindOne(conversations, inv[i].channel)
       IN  inv' = [inv EXCEPT ![i] =
                IF doc = NoDoc
                THEN [@ EXCEPT !.pc = "done", !.outcome = "Delegated"]
                ELSE [@ EXCEPT !.pc = FetchSteps[1], !.doc_found = TRUE,
                               !.model = doc.model]]
    /\ UNCHANGED <<session_ready, conversations, threads, notified, bind>>

\* ---------------------------------------------------- regenerate_response
\* lines 156-157: the command arrives and is deferred
Regenerate(i, ch, e) ==
    /\ session_ready
    /\ inv[i].pc = "idle"
    /\ \A j \in Invs : j < i => inv[j].pc # "idle"
    /\ ChannelExists(ch)
    /\ inv' = [inv EXCEPT ![i] =
                 [Arrive(i, "regen", ch, e) EXCEPT !.pc = "lookup"]]
    /\ UNCHANGED <<session_ready, conversations, threads, notified, bind>>

\* lines 158-168: find_one and the two refusals
RegenLookup(i) ==
    /\ inv[i].kind = "regen"
    /\ inv[i].pc = "lookup"
    /\ LET doc == FindOne(conversations, inv[i].channel)
           chk == RegenCheck(doc, inv[i].author_bot, inv[i].content)
       IN  inv' = [inv EXCEPT ![i] =
                IF chk = "ok"
                THEN [@ EXCEPT !.pc = FetchSteps[1], !.doc_found = TRUE,
                               !.model = doc.model]
                ELSE [@ EXCEPT !.pc = "done", !.doc_found = (doc # NoDoc),
                               !.outcome = chk]]
    /\ UNCHANGED <<session_ready, conversations, threads, notified, bind>>

\* --------------------------------------------------- Bot.fetch_response
\* lines 116-121: strip the mention, find_one, give up without a document
\* or an HTTP session, else extend the local copy of the history
FetchFind(i) ==
    /\ inv[i].pc = "find"
    /\ LET doc == FindOne(conversations, inv[i].channel)
           message == Replace(inv[i].content, Mention)
       IN  inv' = [inv EXCEPT ![i] =
                IF doc = NoDoc \/ ~session_ready
                THEN [@ EXCEPT !.pc = "done", !.message = message,
                               !.outcome = "ReturnedNone"]
                ELSE [@ EXCEPT !.pc = NextStep("find"), !.message = message,
                               !.data = Append(doc.messages, Msg("user", message))]]
    /\ UNCHANGED <<session_ready, conversations, threads, notified, bind>>

\* lines 123-126: update_one, $push of the user message
PushUser(i) ==
    /\ inv[i].pc = "push_user"
    /\ conversations' =
          PushMessage(conversations, inv[i].channel, Msg("user", inv[i].message))
    /\ inv' = [inv EXCEPT ![i].pc = NextStep("push_user"), ![i].user_pushed = TRUE]
    /\ UNCHANGED <<session_ready, threads, notified, bind>>

\* lines 127-130: the request goes out with the local copy of the history
Post(i) ==
    /\ inv[i].pc = "post"
    /\ inv' = [inv EXCEPT ![i].pc = NextStep("post"), ![i].called = TRUE,
                          ![i].sent = inv[i].data]
    /\ UNCHANGED <<session_ready, conversations, threads, notified, bind>>

\* lines 131-133: the body is read; an exception ends the invocation
Response(i, r) ==
    /\ inv[i].pc = "response"
    /\ inv' = [inv EXCEPT ![i] =
                 IF ResponseResult(r) = "ok"
                 THEN [@ EXCEPT !.pc = NextStep("response"), !.resp = r,
                                !.responded = TRUE, !.data = <<>>, !.sent = <<>>,
                                !.ai_message = r.response]
                 ELSE [@ EXCEPT !.pc = "done", !.resp = r, !.responded = TRUE,
                                !.data = <<>>, !.sent = <<>>,
                                !.ai_message = IF r.ok /\ r.result THEN r.response
                                               ELSE <<>>,
                                !.outcome = "Raised"]]
    /\ UNCHANGED <<session_ready, conversations, threads, notified, bind>>

\* lines 134-137: update_one, $push of the assistant message
PushAssistant(i) ==
    /\ inv[i].pc = "push_asst"
    /\ conversations' =
          PushMessage(conversations, inv[i].channel,
                      Msg("assistant", inv[i].ai_message))
    /\ inv' = [inv EXCEPT ![i].pc = NextStep("push_asst"), ![i].asst_pushed = TRUE]
    /\ UNCHANGED <<session_ready, threads, notified, bind>>

\* line 138 and the handler's tail (193-195, 173-175): message.reply or
\* edit_original_response with the generated text
Return(i) ==
    /\ inv[i].pc = "return"
    /\ inv' = [inv EXCEPT ![i].pc = NextStep("return"), ![i].outcome = "Replied",
                          ![i].shown = inv[i].ai_message]
    /\ UNCHANGED <<session_ready, conversations, threads, notified, bind>>

\* ---------------------------------------------------------- specification
Next ==
    \/ SetupHook
    \/ \E b \in Binds, m \in Models, hm \in BOOLEAN : Select(b, m, hm)
    \/ \E b \in Binds : CreateThread(b)
    \/ \E b \in Binds : Notify(b)
    \/ \E b \in Binds : InsertSession(b)
    \/ \E i \in Invs, ch \in Channels, e \in MessageEvents : OnMessage(i, ch, e)
    \/ \E i \in Invs : MessageLookup(i)
    \/ \E i \in Invs, ch \in Channels, e \in RegenTargets : Regenerate(i, ch, e)
    \/ \E i \in Invs : RegenLookup(i)
    \/ \E i \in Invs : FetchFind(i)
    \/ \E i \in Invs : PushUser(i)
    \/ \E i \in Invs : Post(i)
    \/ \E i \in Invs, r \in Responses : Response(i, r)
    \/ \E i \in Invs : PushAssistant(i)
    \/ \E i \in Invs : Return(i)

Spec == Init /\ [][Next]_vars

\* ------------------------------------------------- the store on its own
\* The store operations of the code applied to any thread id: insert_one of
\* lines 64-75 as the store's create, update_one of lines 123-126 as its
\* append.  The bot itself only inserts the id of the thread it has just
\* created; here the caller is free, as for a test of the store.
MaxDocs == 3
MaxHist == 3

StoreMessages == { Msg("user", <<"g">>), Msg("assistant", <<"s">>) }

StoreCreate(tid, model) ==
    /\ Len(conversations) < MaxDocs
    /\ conversations' = InsertOne(conversations, NewDocument(tid, model))
    /\ UNCHANGED <<session_ready, threads, notified, bind, inv>>

StoreAppend(tid, m) ==
    /\ Matching(conversations, tid) # {}
    /\ Len(History(conversations, tid)) < MaxHist
    /\ conversations' = PushMessage(conversations, tid, m)
    /\ UNCHANGED <<session_ready, threads, notified, bind, inv>>

StoreNext ==
    \/ \E tid \in 1..2, m \in Models : StoreCreate(tid, m)
    \/ \E tid \in 1..2, m \in StoreMessages : StoreAppend(tid, m)

StoreSpec == Init /\ [][StoreNext]_vars

\* ================================================================ claims
Hist(ch) == History(conversations, ch)

Bound(ch) == Matching(conversations, ch) # {}

OnChannel(ch) == { i \in Invs : inv[i].pc # "idle" /\ inv[i].channel = ch }

\* no invocation on the channel of i overlapped i or arrived after it
Alone(i) ==
    /\ inv[i].solo
    /\ \A j \in Invs : j > i => j \notin OnChannel(inv[i].channel)

\* the inference call of i failed: no transport, or a body without a result
InferenceFailed(i) ==
    inv[i].responded /\ (~inv[i].resp.ok \/ ~inv[i].resp.result)

Alternates(h) ==
    \A k \in 2..Len(h) : h[k].role = IF k % 2 = 0 THEN "user" ELSE "assistant"

\* C1: within one invocation the user message is stored before the
\* inference request goes out, and the request has gone out and its answer
\* has been read before the assistant message is stored
C1_Order ==
    \A i \in Invs :
        /\ inv[i].called => inv[i].user_pushed
        /\ inv[i].responded => inv[i].called
        /\ inv[i].asst_pushed =>
              inv[i].user_pushed /\ inv[i].called /\ inv[i].responded

C1_Witness == \E i \in Invs : inv[i].asst_pushed

\* C2: every stored session starts with the system message
C2_SystemFirst ==
    \A k \in 1..Len(conversations) :
        /\ Len(conversations[k].messages) >= 1
        /\ conversations[k].messages[1].role = "system"

C2_Witness ==
    \E k \in 1..Len(conversations) :
        /\ Len(conversations[k].messages) >= 5
        /\ \E i, j \in Invs : i # j /\ inv[i].kind = "message" /\ inv[j].kind = "regen"
                              /\ inv[i].asst_pushed /\ inv[j].asst_pushed

\* C3 (as claimed): with N invocations replied to and none in flight, the
\* history has length 1 + 2N and alternates user, assistant after the
\* system entry, whatever the interleaving
C3_Alternating ==
    \A ch \in Channels :
        ( /\ Bound(ch)
          /\ \A i \in OnChannel(ch) : inv[i].pc = "done" /\ inv[i].outcome # "Raised" )
        => LET N == Cardinality({ i \in OnChannel(ch) : inv[i].outcome = "Replied" })
           IN  /\ Len(Hist(ch)) = 1 + 2 * N
               /\ Alternates(Hist(ch))

\* C4: no append is lost: the history is the system entry plus one entry
\* for every user push and every assistant push made on the thread, and
\* every pushed message is in it
UserPushes(ch) == { i \in Invs : inv[i].channel = ch /\ inv[i].user_pushed }

AsstPushes(ch) == { i \in Invs : inv[i].channel = ch /\ inv[i].asst_pushed }

C4_NoLostAppend ==
    \A ch \in Channels :
        Bound(ch) =>
            /\ Len(Hist(ch)) = 1 + Cardinality(UserPushes(ch))
                                 + Cardinality(AsstPushes(ch))
            /\ \A i \in UserPushes(ch) :
                  \E k \in 1..Len(Hist(ch)) : Hist(ch)[k] = Msg("user", inv[i].message)
            /\ \A i \in AsstPushes(ch) :
                  \E k \in 1..Len(Hist(ch)) :
                      Hist(ch)[k] = Msg("assistant", inv[i].ai_message)

\* two overlapping invocations on one thread have both pushed
C4_Witness ==
    \E i, j \in Invs :
        /\ i # j /\ inv[i].channel = inv[j].channel
        /\ ~inv[j].solo
        /\ inv[i].asst_pushed /\ inv[j].asst_pushed
        /\ inv[i].message = inv[j].message

\* C5: an invocation whose inference call failed stores no assistant
\* message and shows nothing: it ends without a reply or an edit
C5_FailedInference ==
    \A i \in Invs :
        InferenceFailed(i) =>
            /\ ~inv[i].asst_pushed
            /\ inv[i].pc = "done"
            /\ inv[i].outcome = "Raised"
            /\ inv[i].shown = <<>>

C5_Witness ==
    \E i, j \in Invs :
        /\ InferenceFailed(i) /\ ~inv[i].resp.ok /\ inv[i].kind = "message"
        /\ InferenceFailed(j) /\ inv[j].resp.ok /\ inv[j].kind = "regen"

\* C6 (as claimed): after a message invocation whose inference call failed
\* the history is what it was before the invocation
C6_NoOrphan ==
    \A i \in Invs :
        ( /\ inv[i].kind = "message"
          /\ InferenceFailed(i)
          /\ Alone(i) )
        => Hist(inv[i].channel) = inv[i].h0

\* the handler's find_one has returned
LookedUp(i) == inv[i].pc \notin {"idle", "lookup"}

NoEffect(i) ==
    ~inv[i].user_pushed /\ ~inv[i].called /\ ~inv[i].asst_pushed

\* C7: a regeneration whose thread has no session ends as
\* NoSessionForThread, with no push and no inference call, whoever wrote
\* the target and whatever its text
C7_NoSession ==
    \A i \in Invs :
        (inv[i].kind = "regen" /\ LookedUp(i) /\ ~inv[i].doc_found) =>
            /\ inv[i].pc = "done"
            /\ inv[i].outcome = "NoSessionForThread"
            /\ NoEffect(i)

C7_Witness ==
    \E i, j \in Invs :
        /\ inv[i].kind = "regen" /\ LookedUp(i) /\ ~inv[i].doc_found
        /\ inv[i].author_bot
        /\ inv[j].kind = "regen" /\ LookedUp(j) /\ ~inv[j].doc_found
        /\ ~inv[j].author_bot /\ inv[j].content # <<>>

\* C8: a regeneration on a thread with a session whose target was written
\* by a bot or has no text ends as InvalidTarget, with no push and no
\* inference call
C8_InvalidTarget ==
    \A i \in Invs :
        ( /\ inv[i].kind = "regen" /\ LookedUp(i) /\ inv[i].doc_found
          /\ (inv[i].author_bot \/ inv[i].content = <<>>) )
        => /\ inv[i].pc = "done"
           /\ inv[i].outcome = "InvalidTarget"
           /\ NoEffect(i)
           /\ (Alone(i) /\ inv[i].h0 # <<>>) => Hist(inv[i].channel) = inv[i].h0

C8_Witness ==
    \E i, j \in Invs :
        /\ inv[i].kind = "regen" /\ LookedUp(i) /\ inv[i].doc_found
        /\ inv[i].content = <<>>
        /\ inv[j].kind = "regen" /\ LookedUp(j) /\ inv[j].doc_found
        /\ inv[j].author_bot

\* a regeneration on a bound thread that was replied to and ran alone
RegenDone(i) ==
    /\ inv[i].kind = "regen"
    /\ inv[i].outcome = "Replied"
    /\ Alone(i)
    /\ inv[i].h0 # <<>>

\* C9 (as claimed): a successful regeneration that ran alone leaves the
\* history H followed by user:t and assistant:r, t the target's text and r
\* the generated text, and the displayed message shows r
C9_AppendsTargetText ==
    \A i \in Invs :
        RegenDone(i) =>
            /\ Hist(inv[i].channel) =
                 inv[i].h0 \o <<Msg("user", inv[i].content),
                                Msg("assistant", inv[i].resp.response)>>
            /\ inv[i].shown = inv[i].resp.response

\* C9 (amended): the same with the user entry holding t without the bot's
\* mention token: nothing of H is removed or replaced
C9_AppendsStrippedText ==
    \A i \in Invs :
        RegenDone(i) =>
            /\ Hist(inv[i].channel) =
                 inv[i].h0 \o <<Msg("user", ReplaceFrom(inv[i].content, Mention, 1)),
                                Msg("assistant", inv[i].resp.response)>>
            /\ inv[i].shown = inv[i].resp.response

\* the regeneration of "<@id>h" after the exchange it belongs to
C9_Witness ==
    \E i \in Invs :
        /\ RegenDone(i)
        /\ Len(inv[i].h0) = 3
        /\ inv[i].content = <<"<", ">", "h">>
        /\ inv[i].h0[2] = Msg("user", <<"h">>)
        /\ inv[i].resp.response # inv[i].h0[3].content

\* C10 (as claimed): one accepted message on a fresh session, alone, whose
\* inference call returned r, ends with the history [system, user:t,
\* assistant:r], t the text without the mention token, and with the reply r
C10_FirstExchange ==
    \A i \in Invs :
        ( /\ inv[i].kind = "message"
          /\ inv[i].h0 = <<SystemMessage>>
          /\ Alone(i)
          /\ inv[i].responded /\ inv[i].resp.ok /\ inv[i].resp.result
          /\ inv[i].pc = "done" )
        => /\ Hist(inv[i].channel) =
                <<SystemMessage,
                  Msg("user", ReplaceFrom(inv[i].content, Mention, 1)),
                  Msg("assistant", inv[i].resp.response)>>
           /\ inv[i].outcome = "Replied"
           /\ inv[i].shown = inv[i].resp.response

BoundBinds == { b \in Binds : bind[b].outcome = "Bound" }

C12_OnlyBindCreates ==
    /\ \A ch \in Channels : Cardinality(Matching(conversations, ch)) <= 1
    /\ Len(conversations) = Cardinality(BoundBinds)
    /\ \A k \in 1..Len(conversations) : conversations[k].thread_id \in BoundBinds

\* one invocation has pushed both its messages, another found no session
C12_Witness ==
    \E i, j \in Invs :
        /\ inv[i].asst_pushed
        /\ inv[j].pc = "done" /\ ~inv[j].doc_found
        /\ Eligible(inv[j].author_bot, inv[j].mentioned, inv[j].content)

\* C13 (as claimed): when the inference request of an invocation goes
\* out, the messages it carries are the stored history of the thread at
\* that moment, also when invocations on the thread overlap
C13_SendsStoredHistory ==
    [][ \A i \in Invs :
          (inv[i].pc = "post" /\ inv'[i].pc = "response")
          => inv'[i].sent = Hist(inv[i].channel) ]_vars

IsPrefix(a, b) ==
    /\ Len(a) <= Len(b)
    /\ \A k \in 1..Len(a) : a[k] = b[k]

\* C14: every step leaves every stored history a prefix of what it becomes:
\* documents stay where they are, messages are only added at the end
C14_AppendOnly ==
    [][ /\ Len(conversations) <= Len(conversations')
        /\ \A k \in 1..Len(conversations) :
              /\ conversations'[k].thread_id = conversations[k].thread_id
              /\ IsPrefix(conversations[k].messages, conversations'[k].messages)
      ]_vars

\* a history that grew through a failed and a replied invocation
C14_Witness ==
    \E i, j \in Invs :
        /\ inv[i].channel = inv[j].channel
        /\ inv[i].outcome = "Raised" /\ inv[i].user_pushed
        /\ inv[j].outcome = "Replied"
        /\ Len(Hist(inv[i].channel)) = 4

\* C15: the model of a stored session is the one selected in the bind of
\* its thread, whatever the invocations have done since, and an invocation
\* that has made its inference call made it with that model
C15_ModelFixed ==
    /\ \A k \in 1..Len(conversations) :
          /\ conversations[k].thread_id \in Binds
          /\ conversations[k].model = bind[conversations[k].thread_id].model
    /\ \A i \in Invs :
          inv[i].called =>
              /\ inv[i].channel \in Binds
              /\ inv[i].model = bind[inv[i].channel].model

C15_Witness ==
    \E i \in Invs :
        /\ inv[i].asst_pushed
        /\ inv[i].model = "@cf/mistral/mistral-7b-instruct-v0.1"
        /\ FindOne(conversations, inv[i].channel).model = inv[i].model

\* C16: a message event whose author is a bot, that does not mention the
\* bot, that has no text, or whose thread has no session ends delegated to
\* command processing: nothing pushed, no inference call, no reply, and the
\* history of its thread is what it was
C16_Delegated ==
    \A i \in Invs :
        ( /\ inv[i].kind = "message"
          /\ \/ inv[i].author_bot \/ ~inv[i].mentioned \/ inv[i].content = <<>>
             \/ LookedUp(i) /\ ~inv[i].doc_found )
        => /\ inv[i].pc = "done"
           /\ inv[i].outcome = "Delegated"
           /\ NoEffect(i) /\ ~inv[i].responded
           /\ inv[i].shown = <<>>
           /\ Alone(i) => \/ Hist(inv[i].channel) = inv[i].h0
                          \/ inv[i].h0 = <<>> /\ Hist(inv[i].channel) = <<SystemMessage>>

\* an unmentioned message on a bound thread, and an eligible one on a
\* thread without a session
C16_Witness ==
    \E i, j \in Invs :
        /\ inv[i].kind = "message" /\ ~inv[i].mentioned /\ inv[i].h0 # <<>>
        /\ inv[j].kind = "message" /\ inv[j].mentioned /\ ~inv[j].author_bot
        /\ inv[j].content # <<>> /\ LookedUp(j) /\ ~inv[j].doc_found

\* C17 (as claimed): a message invocation whose inference call succeeded
\* does not end before its assistant message is stored and replied
C17_SucceededCallIsPersisted ==
    \A i \in Invs :
        ( /\ inv[i].kind = "message"
          /\ inv[i].responded /\ inv[i].resp.ok /\ inv[i].resp.result
          /\ inv[i].pc = "done" )
        => inv[i].asst_pushed /\ inv[i].outcome = "Replied"

CountRole(h, role, n) == Cardinality({ k \in 1..n : h[k].role = role })

\* C18: in every prefix of a stored history there are at most as many
\* assistant messages as user messages, and the assistant message of an
\* invocation comes after the user message of the same invocation
C18_AssistantAfterUser ==
    \A ch \in Channels :
        Bound(ch) =>
            /\ \A n \in 1..Len(Hist(ch)) :
                  CountRole(Hist(ch), "assistant", n) <= CountRole(Hist(ch), "user", n)
            /\ \A i \in AsstPushes(ch) :
                  \E k, l \in 1..Len(Hist(ch)) :
                      /\ k < l
                      /\ Hist(ch)[k] = Msg("user", inv[i].message)
                      /\ Hist(ch)[l] = Msg("assistant", inv[i].ai_message)

\* overlapping invocations, one replied to and one failed
C18_Witness ==
    \E i, j \in Invs :
        /\ i # j /\ inv[i].channel = inv[j].channel
        /\ ~inv[i].solo \/ ~inv[j].solo
        /\ inv[i].asst_pushed
        /\ inv[j].user_pushed /\ inv[j].outcome = "Raised"

\* C19: a reply or an edit with generated text comes after the assistant
\* message of the invocation was stored, and shows the stored content
C19_ShownIsStored ==
    \A i \in Invs :
        (inv[i].outcome = "Replied" \/ inv[i].shown # <<>>) =>
            /\ inv[i].asst_pushed
            /\ inv[i].shown = inv[i].ai_message
            /\ \E k \in 1..Len(Hist(inv[i].channel)) :
                  Hist(inv[i].channel)[k] = Msg("assistant", inv[i].shown)

C19_Witness ==
    \E i, j \in Invs :
        /\ inv[i].kind = "message" /\ inv[i].outcome = "Replied"
        /\ inv[j].kind = "regen" /\ inv[j].outcome = "Replied"
        /\ inv[i].shown # inv[j].shown

\* C20 (as claimed): once the thread exists and its notice is shown, the
\* session of the thread is in the store
C20_SessionBeforeNotice ==
    \A b \in Binds : (b \in threads /\ b \in notified) => Bound(b)

====
